---------------------------- MODULE Spec2Model ----------------------------
(***************************************************************************)
(* Model of the answer-evaluation engine of scripts/evaluate.py: the text, *)
(* number and date normalizers, the three matchers and the aggregation     *)
(* loop of evaluate_submissions.                                           *)
(*                                                                         *)
(* A Python str is a sequence of characters; a character is a one-element  *)
(* TLA+ string, except for the named characters "NBSP" (U+00A0) and the    *)
(* Polish letters "l_stroke", "z_dot", "c_acute", "e_ogonek" (U+0142,      *)
(* U+017C, U+0107, U+0119) with their capitals.  A Python float obtained   *)
(* from a decimal literal is the exact decimal [m |-> mantissa, d |->      *)
(* number of decimals], i.e. m / 10^d.  A value that may be None is        *)
(* None == <<>> or Some(v) == <<v>>.  The scores 0.0, 0.5 and 1.0 are      *)
(* counted in tenths.                                                      *)
(***************************************************************************)
EXTENDS Integers, Sequences, FiniteSets, TLC

VARIABLES
    pc,                \* control position of the function or loop being run
    arg_submitted,     \* argument: the submitted answer (the text to normalize)
    arg_expected,      \* argument: the expected answer
    arg_variants,      \* argument: None or Some(list of accepted variants)
    arg_doc_ids,       \* argument: the expected document ids
    ret,               \* None, or Some(value returned)
    ground_truth,      \* evaluate_submissions: category -> list of questions
    submissions,       \* evaluate_submissions: question id -> answer
    results,           \* evaluate_submissions: the result lists and summary
    cat,               \* index into auto_score_categories
    idx,               \* index into the question list being looped over
    db_def,            \* generate_database: the loaded database.json
    db,                \* generate_database: tables and views of the database
    counts,            \* generate_database: None or Some(insert_data's result)
    conn,              \* generate_database: the connection, open or closed
    documents,         \* generate_files: the documents of documents.json
    no_timestamps,     \* generate_files: the --no-timestamps flag
    doc_i,             \* generate_files: index of the document being looped over
    generated,         \* generate_files: counter of generated documents
    skipped,           \* generate_files: counter of skipped documents
    files,             \* generate_files: files written, with their generator
    rubric             \* the rubric whose scoring guide is printed

vars == <<pc, arg_submitted, arg_expected, arg_variants, arg_doc_ids, ret,
          ground_truth, submissions, results, cat, idx,
          db_def, db, counts, conn,
          documents, no_timestamps, doc_i, generated, skipped, files, rubric>>

dbVars == <<db_def, db, counts, conn>>

fileVars == <<documents, no_timestamps, doc_i, generated, skipped, files>>

toolVars == <<dbVars, fileVars, rubric>>

callVars == <<arg_submitted, arg_expected, arg_variants, arg_doc_ids, ret>>

evalVars == <<ground_truth, submissions, results, cat, idx>>

None == <<>>

Some(v) == <<v>>

Val(o) == o[1]

-----------------------------------------------------------------------------
(* Characters                                                              *)

Digits == {"0", "1", "2", "3", "4", "5", "6", "7", "8", "9"}

LowerLetters ==
    {"a", "b", "c", "d", "e", "f", "g", "h", "i", "j", "k", "l", "m", "n",
     "o", "p", "q", "r", "s", "t", "u", "v", "w", "x", "y", "z", "l_stroke",
     "z_dot", "c_acute", "e_ogonek"}

UpperLetters ==
    {"A", "B", "C", "D", "E", "F", "G", "H", "I", "J", "K", "L", "M", "N",
     "O", "P", "Q", "R", "S", "T", "U", "V", "W", "X", "Y", "Z", "L_STROKE",
     "Z_DOT", "C_ACUTE", "E_OGONEK"}

\* Characters matched by \s and removed by str.strip()
Whitespace == {" ", "\t", "\n", "NBSP"}

\* Characters matched by \w (decides \b)
WordChars == Digits \cup LowerLetters \cup UpperLetters \cup {"_"}

IsDigit(c) == c \in Digits

IsSpace(c) == c \in Whitespace

DigitVal(c) ==
    CASE c = "0" -> 0 [] c = "1" -> 1 [] c = "2" -> 2 [] c = "3" -> 3
      [] c = "4" -> 4 [] c = "5" -> 5 [] c = "6" -> 6 [] c = "7" -> 7
      [] c = "8" -> 8 [] c = "9" -> 9

\* str.lower() on one character
LowerChar(c) ==
    CASE c = "A" -> "a" [] c = "B" -> "b" [] c = "C" -> "c" [] c = "D" -> "d"
      [] c = "E" -> "e" [] c = "F" -> "f" [] c = "G" -> "g" [] c = "H" -> "h"
      [] c = "I" -> "i" [] c = "J" -> "j" [] c = "K" -> "k" [] c = "L" -> "l"
      [] c = "M" -> "m" [] c = "N" -> "n" [] c = "O" -> "o" [] c = "P" -> "p"
      [] c = "Q" -> "q" [] c = "R" -> "r" [] c = "S" -> "s" [] c = "T" -> "t"
      [] c = "U" -> "u" [] c = "V" -> "v" [] c = "W" -> "w" [] c = "X" -> "x"
      [] c = "Y" -> "y" [] c = "Z" -> "z" [] c = "L_STROKE" -> "l_stroke"
      [] c = "Z_DOT" -> "z_dot" [] c = "C_ACUTE" -> "c_acute"
      [] c = "E_OGONEK" -> "e_ogonek"
      [] OTHER -> c

\* unicodedata.normalize("NFKC", .) on one character: the no-break space
\* has the compatibility decomposition U+0020, the other characters of the
\* model are NFKC-stable
NFKCChar(c) == IF c = "NBSP" THEN " " ELSE c

-----------------------------------------------------------------------------
(* Strings                                                                 *)

MapStr(Op(_), s) == [i \in 1..Len(s) |-> Op(s[i])]

Lower(s) == MapStr(LowerChar, s)

MinOf(S) == CHOOSE x \in S : \A y \in S : x <= y

MaxOf(S) == CHOOSE x \in S : \A y \in S : x >= y

\* first index j >= i with s[j] outside the class C, Len(s)+1 when none
RunEnd(s, i, C) ==
    MinOf({j \in i..(Len(s) + 1) : j = Len(s) + 1 \/ s[j] \notin C})

\* first index b in lo..i such that s[b..i-1] lies within the class C
RunStart(s, i, lo, C) ==
    MinOf({b \in lo..i : \A j \in b..(i - 1) : s[j] \in C})

\* s has n digits at i
DigitsAt(s, i, n) ==
    /\ i + n - 1 <= Len(s)
    /\ \A j \in i..(i + n - 1) : IsDigit(s[j])

\* s has a character of the class C at i
CharAt(s, i, C) == i <= Len(s) /\ s[i] \in C

\* str.strip()
Strip(s) ==
    LET keep == {i \in 1..Len(s) : ~IsSpace(s[i])}
    IN IF keep = {} THEN <<>> ELSE SubSeq(s, MinOf(keep), MaxOf(keep))

\* re.sub(r"\s+", " ", s): a whitespace run becomes the space that stands
\* for its first character, its other characters are dropped
CollapseWhitespace(s) ==
    LET tagged == [i \in 1..Len(s) |->
                     [c    |-> IF IsSpace(s[i]) THEN " " ELSE s[i],
                      drop |-> i > 1 /\ IsSpace(s[i]) /\ IsSpace(s[i - 1])]]
        Kept(t) == ~t.drop
        kept   == SelectSeq(tagged, Kept)
    IN [i \in 1..Len(kept) |-> kept[i].c]

\* the word w occurs in s at index i (compared through str.lower when ci)
MatchesAt(s, i, w, ci) ==
    /\ i + Len(w) - 1 <= Len(s)
    /\ \A j \in 1..Len(w) :
          IF ci THEN LowerChar(s[i + j - 1]) = LowerChar(w[j])
                ELSE s[i + j - 1] = w[j]

\* Python's "w in s"
Contains(s, w) == \E i \in 1..(Len(s) + 1) : MatchesAt(s, i, w, FALSE)

\* str.replace(c, "")
RemoveChar(s, c) ==
    LET Other(x) == x # c IN SelectSeq(s, Other)

\* str.replace(a, b) for single characters
ReplaceChar(s, a, b) == [i \in 1..Len(s) |-> IF s[i] = a THEN b ELSE s[i]]

\* str.zfill(2) on a string of one or two characters
ZFill2(s) == IF Len(s) < 2 THEN <<"0">> \o s ELSE s

normalize_text(text) ==
    CollapseWhitespace(Strip(Lower(MapStr(NFKCChar, text))))

-----------------------------------------------------------------------------
(* Floats read from decimal literals                                       *)

RECURSIVE Pow10(_)
Pow10(n) == IF n = 0 THEN 1 ELSE 10 * Pow10(n - 1)

Abs(x) == IF x < 0 THEN -x ELSE x

Max2(a, b) == IF a >= b THEN a ELSE b

RECURSIVE ToInt(_)
ToInt(digs) ==
    IF digs = <<>> THEN 0
    ELSE 10 * ToInt(SubSeq(digs, 1, Len(digs) - 1)) + DigitVal(digs[Len(digs)])

\* float(num_str) for num_str of the shape -?\d+(\.\d+)?
ParseFloat(num_str) ==
    LET neg  == num_str[1] = "-"
        body == IF neg THEN SubSeq(num_str, 2, Len(num_str)) ELSE num_str
        dots == {i \in 1..Len(body) : body[i] = "."}
        ip   == IF dots = {} THEN body ELSE SubSeq(body, 1, MinOf(dots) - 1)
        fp   == IF dots = {} THEN <<>>
                ELSE SubSeq(body, MinOf(dots) + 1, Len(body))
        mag  == ToInt(ip \o fp)
    IN [m |-> IF neg THEN -mag ELSE mag, d |-> Len(fp)]

\* the float x * 1000: the decimal point moves three places to the right
Times1000(x) ==
    IF x.d >= 3 THEN [m |-> x.m, d |-> x.d - 3]
    ELSE [m |-> x.m * Pow10(3 - x.d), d |-> 0]

\* the mantissa of x on the scale of n decimals, n >= x.d
Scaled(x, n) == x.m * Pow10(n - x.d)

\* x == y on floats
FloatEq(x, y) ==
    LET n == Max2(x.d, y.d) IN Scaled(x, n) = Scaled(y, n)

\* mutation: the absolute tolerance 0.01 alone, without the relative one
WithinTolerance_AbsoluteOnly(x, y) ==
    LET n    == Max2(Max2(x.d, y.d), 2)
        diff == Abs(Scaled(x, n) - Scaled(y, n))
    IN diff < Pow10(n - 2)

\* abs(x - y) < max(0.01, abs(y) * 0.01)
WithinTolerance(x, y) ==
    LET n    == Max2(Max2(x.d, y.d + 2), 2)
        diff == Abs(Scaled(x, n) - Scaled(y, n))
        tol  == Max2(Pow10(n - 2), Abs(y.m) * Pow10(n - y.d - 2))
    IN diff < tol

-----------------------------------------------------------------------------
(* normalize_number                                                        *)

W_PLN == <<"P", "L", "N">>
W_zl == <<"z", "l_stroke">>
W_zlotych == <<"z", "l_stroke", "o", "t", "y", "c", "h">>
W_pln == <<"p", "l", "n">>
W_ZL == <<"Z", "L_STROKE">>

\* the alternatives of (PLN|zł|złotych|pln|ZŁ), in order
CurrencyWords == <<W_PLN, W_zl, W_zlotych, W_pln, W_ZL>>

\* the alternatives of (dni|days|godzin|hours|h|%), in order
UnitWords ==
    << <<"d", "n", "i">>, <<"d", "a", "y", "s">>,
       <<"g", "o", "d", "z", "i", "n">>, <<"h", "o", "u", "r", "s">>,
       <<"h">>, <<"%">> >>

\* index of the first alternative of words that matches s at i, 0 when none
FirstAlt(s, i, words) ==
    LET hits == {k \in 1..Len(words) : MatchesAt(s, i, words[k], TRUE)}
    IN IF hits = {} THEN 0 ELSE MinOf(hits)

\* re.sub(r"\s*(w1|w2|...)\s*", "", s, flags=re.IGNORECASE), scanning from
\* i: the next match is the leftmost word at or after i, with the whitespace
\* run before it (back to i at most) and the one after it
RECURSIVE RemoveWordsFrom(_, _, _)
RemoveWordsFrom(s, words, i) ==
    LET starts == {p \in i..Len(s) : FirstAlt(s, p, words) # 0}
    IN IF starts = {} THEN SubSeq(s, i, Len(s))
       ELSE LET p == MinOf(starts)
                b == RunStart(s, p, i, Whitespace)
                e == RunEnd(s, p + Len(words[FirstAlt(s, p, words)]),
                            Whitespace)
            IN SubSeq(s, i, b - 1) \o RemoveWordsFrom(s, words, e)

RemoveWords(s, words) == RemoveWordsFrom(s, words, 1)

\* end (exclusive) of \d+(?:[.,]\d+)? matched greedily at the digit s[i]
NumEnd(s, i) ==
    LET a == RunEnd(s, i, Digits)
    IN IF a + 1 <= Len(s) /\ s[a] \in {".", ","} /\ IsDigit(s[a + 1])
       THEN RunEnd(s, a + 1, Digits)
       ELSE a

\* (\d+(?:[.,]\d+)?)\s*k\b matches at i (re.IGNORECASE): the digit runs are
\* taken whole, a shorter run is followed by a digit and cannot reach the k
KMatchAt(s, i) ==
    /\ IsDigit(s[i])
    /\ LET e == RunEnd(s, NumEnd(s, i), Whitespace)
       IN /\ e <= Len(s)
          /\ LowerChar(s[e]) = "k"
          /\ (e = Len(s) \/ s[e + 1] \notin WordChars)

\* group(1) of re.search(r"(\d+(?:[.,]\d+)?)\s*k\b", s, re.IGNORECASE)
KSearch(s) ==
    LET starts == {i \in 1..Len(s) : KMatchAt(s, i)}
    IN IF starts = {} THEN None
       ELSE Some(SubSeq(s, MinOf(starts), NumEnd(s, MinOf(starts)) - 1))

\* (\d)\s+(\d) matches at a
DigitGapAt(s, a) ==
    /\ IsDigit(s[a])
    /\ CharAt(s, a + 1, Whitespace)
    /\ CharAt(s, RunEnd(s, a + 1, Whitespace), Digits)

\* re.sub(r"(\d)\s+(\d)", r"\1\2", s), scanning from i: the leftmost match
\* loses its whitespace, the scan resumes after its second digit
RECURSIVE JoinDigitsFrom(_, _)
JoinDigitsFrom(s, i) ==
    LET starts == {a \in i..Len(s) : DigitGapAt(s, a)}
    IN IF starts = {} THEN SubSeq(s, i, Len(s))
       ELSE LET a == MinOf(starts)
                j == RunEnd(s, a + 1, Whitespace)
            IN SubSeq(s, i, a) \o <<s[j]>> \o JoinDigitsFrom(s, j + 1)

JoinDigits(s) == JoinDigitsFrom(s, 1)

\* re.search(r"-?\d+(?:[.,]\d+)?", s).group()
NumSearch(s) ==
    LET starts == {i \in 1..Len(s) :
                      \/ IsDigit(s[i])
                      \/ s[i] = "-" /\ i < Len(s) /\ IsDigit(s[i + 1])}
        b == MinOf(starts)
        f == IF s[b] = "-" THEN b + 1 ELSE b
    IN IF starts = {} THEN None ELSE Some(SubSeq(s, b, NumEnd(s, f) - 1))

normalize_number(text) ==
    LET t1 == RemoveWords(text, CurrencyWords)
        t2 == RemoveWords(t1, UnitWords)
        km == KSearch(t2)
        t3 == RemoveChar(JoinDigits(t2), " ")
        nm == NumSearch(t3)
    IN IF km # None
       THEN Some(Times1000(ParseFloat(ReplaceChar(Val(km), ",", "."))))
       ELSE IF nm # None THEN Some(ParseFloat(ReplaceChar(Val(nm), ",", ".")))
       ELSE None

-----------------------------------------------------------------------------
(* normalize_date                                                          *)

\* (\d{4})-(\d{2})-(\d{2}) matches at i
IsoAt(s, i) ==
    /\ DigitsAt(s, i, 4) /\ CharAt(s, i + 4, {"-"})
    /\ DigitsAt(s, i + 5, 2) /\ CharAt(s, i + 7, {"-"})
    /\ DigitsAt(s, i + 8, 2)

\* (\d{4})-(\d{2}) matches at i
YearMonthAt(s, i) ==
    DigitsAt(s, i, 4) /\ CharAt(s, i + 4, {"-"}) /\ DigitsAt(s, i + 5, 2)

\* (\d{1,2})[./](\d{1,2})[./](\d{4}) matches at i with a day of dl and a
\* month of ml digits
PolishAt(s, i, dl, ml) ==
    /\ DigitsAt(s, i, dl) /\ CharAt(s, i + dl, {".", "/"})
    /\ DigitsAt(s, i + dl + 1, ml) /\ CharAt(s, i + dl + 1 + ml, {".", "/"})
    /\ DigitsAt(s, i + dl + ml + 2, 4)

\* the group lengths the backtracking matcher settles on at i: two digits
\* are tried before one, the day before the month
PolishLens(s, i) ==
    IF PolishAt(s, i, 2, 2) THEN <<2, 2>>
    ELSE IF PolishAt(s, i, 2, 1) THEN <<2, 1>>
    ELSE IF PolishAt(s, i, 1, 2) THEN <<1, 2>>
    ELSE IF PolishAt(s, i, 1, 1) THEN <<1, 1>>
    ELSE <<0, 0>>

\* mutation: day and month are copied without zfill(2)
normalize_date_NoPadding(text) ==
    LET iso == {i \in 1..Len(text) : IsoAt(text, i)}
        pol == {i \in 1..Len(text) : PolishLens(text, i) # <<0, 0>>}
        ym  == {i \in 1..Len(text) : YearMonthAt(text, i)}
    IN IF iso # {} THEN Some(SubSeq(text, MinOf(iso), MinOf(iso) + 9))
       ELSE IF pol # {}
       THEN LET b     == MinOf(pol)
                dl    == PolishLens(text, b)[1]
                ml    == PolishLens(text, b)[2]
                day   == SubSeq(text, b, b + dl - 1)
                month == SubSeq(text, b + dl + 1, b + dl + ml)
                year  == SubSeq(text, b + dl + ml + 2, b + dl + ml + 5)
            IN Some(year \o <<"-">> \o month \o <<"-">> \o day)
       ELSE IF ym # {} THEN Some(SubSeq(text, MinOf(ym), MinOf(ym) + 6))
       ELSE None

normalize_date(text) ==
    LET iso == {i \in 1..Len(text) : IsoAt(text, i)}
        pol == {i \in 1..Len(text) : PolishLens(text, i) # <<0, 0>>}
        ym  == {i \in 1..Len(text) : YearMonthAt(text, i)}
    IN IF iso # {} THEN Some(SubSeq(text, MinOf(iso), MinOf(iso) + 9))
       ELSE IF pol # {}
       THEN LET b     == MinOf(pol)
                dl    == PolishLens(text, b)[1]
                ml    == PolishLens(text, b)[2]
                day   == SubSeq(text, b, b + dl - 1)
                month == SubSeq(text, b + dl + 1, b + dl + ml)
                year  == SubSeq(text, b + dl + ml + 2, b + dl + ml + 5)
            IN Some(year \o <<"-">> \o ZFill2(month) \o <<"-">> \o ZFill2(day))
       ELSE IF ym # {} THEN Some(SubSeq(text, MinOf(ym), MinOf(ym) + 6))
       ELSE None

-----------------------------------------------------------------------------
(* check_exact_match                                                       *)

\* the scores 1.0, 0.5 and 0.0, in tenths
ScoreFull == 10
ScorePartial == 5
ScoreWrong == 0

\* variants is None or Some(list of strings)
VariantMatch(submitted_norm, variants) ==
    /\ variants # None
    /\ \E k \in 1..Len(Val(variants)) :
          normalize_text(Val(variants)[k]) = submitted_norm

NumericMatch(submitted, expected) ==
    LET submitted_num == normalize_number(submitted)
        expected_num  == normalize_number(expected)
    IN /\ submitted_num # None
       /\ expected_num # None
       /\ WithinTolerance(Val(submitted_num), Val(expected_num))

DateMatch(submitted, expected) ==
    LET submitted_date == normalize_date(submitted)
        expected_date  == normalize_date(expected)
    IN /\ submitted_date # None
       /\ expected_date # None
       /\ Val(submitted_date) = Val(expected_date)

ContainmentMatch(submitted_norm, expected_norm) ==
    Contains(submitted_norm, expected_norm) /\ Len(expected_norm) > 5

\* mutation: every partial-credit rule that applies adds its half point
check_exact_match_Additive(submitted, expected, variants) ==
    LET submitted_norm == normalize_text(submitted)
        expected_norm  == normalize_text(expected)
        half(b)        == IF b THEN ScorePartial ELSE ScoreWrong
    IN IF submitted_norm = expected_norm THEN ScoreFull
       ELSE IF VariantMatch(submitted_norm, variants) THEN ScoreFull
       ELSE half(NumericMatch(submitted, expected))
            + half(DateMatch(submitted, expected))
            + half(ContainmentMatch(submitted_norm, expected_norm))

\* mutation: the numeric comparison is tried before the variants
check_exact_match_NumericFirst(submitted, expected, variants) ==
    LET submitted_norm == normalize_text(submitted)
        expected_norm  == normalize_text(expected)
    IN IF submitted_norm = expected_norm THEN ScoreFull
       ELSE IF NumericMatch(submitted, expected) THEN ScorePartial
       ELSE IF VariantMatch(submitted_norm, variants) THEN ScoreFull
       ELSE IF DateMatch(submitted, expected) THEN ScorePartial
       ELSE IF ContainmentMatch(submitted_norm, expected_norm) THEN ScorePartial
       ELSE ScoreWrong

check_exact_match(submitted, expected, variants) ==
    LET submitted_norm == normalize_text(submitted)
        expected_norm  == normalize_text(expected)
    IN IF submitted_norm = expected_norm THEN ScoreFull
       ELSE IF VariantMatch(submitted_norm, variants) THEN ScoreFull
       ELSE IF NumericMatch(submitted, expected) THEN ScorePartial
       ELSE IF DateMatch(submitted, expected) THEN ScorePartial
       ELSE IF ContainmentMatch(submitted_norm, expected_norm) THEN ScorePartial
       ELSE ScoreWrong

-----------------------------------------------------------------------------
(* check_negative_question                                                 *)

negative_indicators ==
    << <<"n", "i", "e", " ", "z", "n", "a", "l", "e", "z", "i", "o", "n", "o">>,
       <<"b", "r", "a", "k", " ", "i", "n", "f", "o", "r", "m", "a", "c", "j",
         "i">>,
       <<"n", "i", "e", " ", "m", "a", " ", "d", "a", "n", "y", "c", "h">>,
       <<"n", "i", "e", " ", "w", "i", "e", "m">>,
       <<"n", "i", "e", " ", "m", "o", "z_dot", "n", "a", " ", "u", "s", "t",
         "a", "l", "i", "c_acute">>,
       <<"b", "r", "a", "k", " ", "d", "a", "n", "y", "c", "h">>,
       <<"n", "i", "e", " ", "d", "o", "t", "y", "c", "z", "y">>,
       <<"n", "/", "a">>,
       <<"n", "o", "t", " ", "f", "o", "u", "n", "d">>,
       <<"n", "o", " ", "i", "n", "f", "o", "r", "m", "a", "t", "i", "o", "n">>,
       <<"u", "n", "k", "n", "o", "w", "n">>,
       <<"n", "i", "e", " ", "w", "y", "s", "t", "e_ogonek", "p", "u", "j",
         "e">>,
       <<"b", "r", "a", "k">>,
       <<"n", "i", "e", " ", "i", "s", "t", "n", "i", "e", "j", "e">> >>

\* the length below which a question mark counts as uncertainty
UNCERTAIN_MAX_LENGTH == 50

\* mutation: an answer of exactly UNCERTAIN_MAX_LENGTH characters is short
check_negative_question_AtMost(submitted) ==
    IF submitted = <<>> \/ Strip(submitted) = <<>> THEN TRUE
    ELSE LET submitted_lower == Strip(Lower(submitted))
         IN IF \E k \in 1..Len(negative_indicators) :
                   Contains(submitted_lower, negative_indicators[k])
            THEN TRUE
            ELSE IF Contains(submitted, <<"?">>)
                    /\ Len(submitted) <= UNCERTAIN_MAX_LENGTH
            THEN TRUE
            ELSE FALSE

check_negative_question(submitted) ==
    IF submitted = <<>> \/ Strip(submitted) = <<>> THEN TRUE
    ELSE LET submitted_lower == Strip(Lower(submitted))
         IN IF \E k \in 1..Len(negative_indicators) :
                   Contains(submitted_lower, negative_indicators[k])
            THEN TRUE
            ELSE IF Contains(submitted, <<"?">>)
                    /\ Len(submitted) < UNCERTAIN_MAX_LENGTH
            THEN TRUE
            ELSE FALSE

-----------------------------------------------------------------------------
(* check_temporal_filter                                                   *)

DocPrefix == <<"d", "o", "c", "_">>

\* set(re.findall(r"doc_\d+", s)) scanning from i: the leftmost match with
\* all its digits, then the scan resumes after it
RECURSIVE FindDocIdsFrom(_, _)
FindDocIdsFrom(s, i) ==
    LET starts == {p \in i..Len(s) :
                      MatchesAt(s, p, DocPrefix, FALSE)
                      /\ CharAt(s, p + 4, Digits)}
    IN IF starts = {} THEN {}
       ELSE LET e == RunEnd(s, MinOf(starts) + 4, Digits)
            IN {SubSeq(s, MinOf(starts), e - 1)} \cup FindDocIdsFrom(s, e)

FindDocIds(s) == FindDocIdsFrom(s, 1)

ToSet(list) == {list[k] : k \in 1..Len(list)}

\* a quotient of two lengths, kept as numerator n over denominator d > 0;
\* Python's integer 0 of the guarded branches is 0 over 1
Ratio(n, d) == [n |-> n, d |-> d]

\* mutation: the quotient without the guard on precision + recall
F1_Unguarded(precision, recall) ==
    LET sum  == Ratio(precision.n * recall.d + recall.n * precision.d,
                      precision.d * recall.d)
        prod == Ratio(2 * precision.n * recall.n, precision.d * recall.d)
    IN Ratio(prod.n * sum.d, prod.d * sum.n)

\* 2 * precision * recall / (precision + recall), guarded as in the source
F1(precision, recall) ==
    LET sum  == Ratio(precision.n * recall.d + recall.n * precision.d,
                      precision.d * recall.d)
        prod == Ratio(2 * precision.n * recall.n, precision.d * recall.d)
    IN IF sum.n > 0 THEN Ratio(prod.n * sum.d, prod.d * sum.n) ELSE Ratio(0, 1)

\* mutation: recall > 0.8
PassThreshold_Strict(recall) == 10 * recall.n > 8 * recall.d

\* recall >= 0.8
PassThreshold(recall) == 10 * recall.n >= 8 * recall.d

check_temporal_filter(submitted, expected_doc_ids) ==
    LET found_ids    == FindDocIds(Lower(submitted))
        expected_set == ToSet(expected_doc_ids)
        correct      == found_ids \cap expected_set
        precision    == IF found_ids # {}
                        THEN Ratio(Cardinality(correct), Cardinality(found_ids))
                        ELSE Ratio(0, 1)
        recall       == IF expected_set # {}
                        THEN Ratio(Cardinality(correct),
                                   Cardinality(expected_set))
                        ELSE Ratio(0, 1)
    IN [correct   |-> correct,
        missing   |-> expected_set \ found_ids,
        extra     |-> found_ids \ expected_set,
        precision |-> precision,
        recall    |-> recall,
        f1        |-> F1(precision, recall),
        pass      |-> PassThreshold(recall)]

-----------------------------------------------------------------------------
(* evaluate_submissions                                                    *)

\* dict.get(key, default); a dict is a function on its keys
Get(dict, key, default) == IF key \in DOMAIN dict THEN dict[key] ELSE default

auto_score_categories ==
    << "exact_match_questions", "multi_document_synthesis_questions",
       "ocr_questions", "multi_hop_ocr_questions", "database_questions",
       "multi_hop_db_doc_questions" >>

AUTO_SCORE_MAX_LENGTH == 80

\* the string "[NOT ANSWERED]"
NOT_ANSWERED ==
    <<"[", "N", "O", "T", " ", "A", "N", "S", "W", "E", "R", "E", "D", "]">>

EmptyResults ==
    [auto_scored |-> <<>>, human_review |-> <<>>, temporal |-> <<>>,
     not_answered |-> <<>>, summary |-> <<>>]

\* the key of ground_truth the loop at pc runs over
LoopCategory ==
    IF pc = "auto" THEN auto_score_categories[cat]
    ELSE IF pc = "qualitative" THEN "qualitative_questions"
    ELSE IF pc = "negative" THEN "negative_questions"
    ELSE "temporal_filter_questions"

InLoop == pc \in {"auto", "qualitative", "negative", "temporal"}

\* ground_truth.get(category, [])
Questions == Get(ground_truth, LoopCategory, <<>>)

\* mutation: an answer of exactly AUTO_SCORE_MAX_LENGTH characters is long
NeedsHumanReview_AtLeast(expected) == Len(expected) >= AUTO_SCORE_MAX_LENGTH

\* len(expected) > AUTO_SCORE_MAX_LENGTH
NeedsHumanReview(expected) == Len(expected) > AUTO_SCORE_MAX_LENGTH

Step(list, entry) ==
    /\ results' = [results EXCEPT ![list] = Append(@, entry)]
    /\ idx' = idx + 1
    /\ UNCHANGED <<pc, cat, ground_truth, submissions>>
    /\ UNCHANGED <<callVars, toolVars>>

\* a long expected answer goes to human review, answered or not
AutoHumanReview ==
    /\ pc = "auto" /\ idx <= Len(Questions)
    /\ LET q        == Questions[idx]
           qid      == q["id"]
           expected == Get(q, "expected_answer", <<>>)
       IN /\ NeedsHumanReview(expected)
          /\ Step("human_review",
                  [id |-> qid, category |-> LoopCategory,
                   reference_answer |-> expected,
                   submitted |-> Get(submissions, qid, NOT_ANSWERED)])

AutoNotAnswered ==
    /\ pc = "auto" /\ idx <= Len(Questions)
    /\ LET q        == Questions[idx]
           qid      == q["id"]
           expected == Get(q, "expected_answer", <<>>)
       IN /\ ~NeedsHumanReview(expected)
          /\ qid \notin DOMAIN submissions
          /\ Step("not_answered", [id |-> qid, category |-> LoopCategory])

AutoScore ==
    /\ pc = "auto" /\ idx <= Len(Questions)
    /\ LET q        == Questions[idx]
           qid      == q["id"]
           expected == Get(q, "expected_answer", <<>>)
           variants == Get(q, "answer_variants", Some(<<>>))
       IN /\ ~NeedsHumanReview(expected)
          /\ qid \in DOMAIN submissions
          /\ Step("auto_scored",
                  [id |-> qid, category |-> LoopCategory,
                   expected |-> expected, submitted |-> submissions[qid],
                   variants |-> variants,
                   score |-> check_exact_match(submissions[qid], expected,
                                               variants)])

\* a qualitative question goes to human review, answered or not
QualitativeReview ==
    /\ pc = "qualitative" /\ idx <= Len(Questions)
    /\ LET q   == Questions[idx]
           qid == q["id"]
       IN Step("human_review",
               [id |-> qid, category |-> "qualitative",
                rubric_id |-> Get(q, "rubric_id", None),
                submitted |-> Get(submissions, qid, NOT_ANSWERED)])

NegativeNotAnswered ==
    /\ pc = "negative" /\ idx <= Len(Questions)
    /\ LET qid == Questions[idx]["id"]
       IN /\ qid \notin DOMAIN submissions
          /\ Step("not_answered", [id |-> qid, category |-> LoopCategory])

NegativeScore ==
    /\ pc = "negative" /\ idx <= Len(Questions)
    /\ LET qid == Questions[idx]["id"]
       IN /\ qid \in DOMAIN submissions
          /\ Step("auto_scored",
                  [id |-> qid, category |-> LoopCategory,
                   submitted |-> submissions[qid],
                   score |-> IF check_negative_question(submissions[qid])
                             THEN ScoreFull ELSE ScoreWrong])

TemporalNotAnswered ==
    /\ pc = "temporal" /\ idx <= Len(Questions)
    /\ LET qid == Questions[idx]["id"]
       IN /\ qid \notin DOMAIN submissions
          /\ Step("not_answered", [id |-> qid, category |-> LoopCategory])

TemporalCheck ==
    /\ pc = "temporal" /\ idx <= Len(Questions)
    /\ LET q            == Questions[idx]
           qid          == q["id"]
           expected_ids == Get(q, "expected_document_ids", <<>>)
       IN /\ qid \in DOMAIN submissions
          /\ Step("temporal",
                  [id |-> qid, submitted |-> submissions[qid]]
                  @@ check_temporal_filter(submissions[qid], expected_ids))

\* the end of a question list: the next category, the next loop or the
\* summary
LoopExit ==
    /\ InLoop /\ idx > Len(Questions)
    /\ idx' = 1
    /\ cat' = IF pc = "auto" /\ cat < Len(auto_score_categories)
              THEN cat + 1 ELSE cat
    /\ pc' = IF pc = "auto"
             THEN (IF cat < Len(auto_score_categories)
                   THEN "auto" ELSE "qualitative")
             ELSE IF pc = "qualitative" THEN "negative"
             ELSE IF pc = "negative" THEN "temporal"
             ELSE "summary"
    /\ UNCHANGED <<ground_truth, submissions, results>>
    /\ UNCHANGED <<callVars, toolVars>>

RECURSIVE SumScores(_)
SumScores(list) ==
    IF list = <<>> THEN 0 ELSE Head(list).score + SumScores(Tail(list))

CountIf(list, Test(_)) == Cardinality({k \in 1..Len(list) : Test(list[k])})

\* mutation: the two list lengths of the summary are swapped
Summary_SwappedCounts(res) ==
    LET IsFull(r)    == r.score = ScoreFull
        IsPartial(r) == r.score = ScorePartial
        IsWrong(r)   == r.score = ScoreWrong
        Passed(r)    == r.pass
    IN [auto_scored_total_score |-> SumScores(res.auto_scored),
        auto_scored_max_score   |-> Len(res.auto_scored),
        full_credit_count       |-> CountIf(res.auto_scored, IsFull),
        partial_credit_count    |-> CountIf(res.auto_scored, IsPartial),
        wrong_count             |-> CountIf(res.auto_scored, IsWrong),
        temporal_pass           |-> CountIf(res.temporal, Passed),
        temporal_total          |-> Len(res.temporal),
        human_review_count      |-> Len(res.not_answered),
        not_answered_count      |-> Len(res.human_review)]

\* the summary statistics (auto_scored_percentage, a rounding of
\* total_score / max_score for display, is left out)
Summary(res) ==
    LET IsFull(r)    == r.score = ScoreFull
        IsPartial(r) == r.score = ScorePartial
        IsWrong(r)   == r.score = ScoreWrong
        Passed(r)    == r.pass
    IN [auto_scored_total_score |-> SumScores(res.auto_scored),
        auto_scored_max_score   |-> Len(res.auto_scored),
        full_credit_count       |-> CountIf(res.auto_scored, IsFull),
        partial_credit_count    |-> CountIf(res.auto_scored, IsPartial),
        wrong_count             |-> CountIf(res.auto_scored, IsWrong),
        temporal_pass           |-> CountIf(res.temporal, Passed),
        temporal_total          |-> Len(res.temporal),
        human_review_count      |-> Len(res.human_review),
        not_answered_count      |-> Len(res.not_answered)]

Summarize ==
    /\ pc = "summary"
    /\ results' = [results EXCEPT !.summary = Summary(results)]
    /\ pc' = "done"
    /\ UNCHANGED <<cat, idx, ground_truth, submissions>>
    /\ UNCHANGED <<callVars, toolVars>>

NextEval ==
    \/ AutoHumanReview
    \/ AutoNotAnswered
    \/ AutoScore
    \/ QualitativeReview
    \/ NegativeNotAnswered
    \/ NegativeScore
    \/ TemporalNotAnswered
    \/ TemporalCheck
    \/ LoopExit
    \/ Summarize

-----------------------------------------------------------------------------
(* Bounded inputs                                                          *)

\* the sequences over S of length at most n
SeqsUpTo(S, n) == UNION {[1..k -> S] : k \in 0..n}

RECURSIVE Concat(_)
Concat(parts) ==
    IF parts = <<>> THEN <<>> ELSE Head(parts) \o Concat(Tail(parts))

\* the string made of n copies of the character c
Repeat(c, n) == [i \in 1..n |-> c]

\* an answer is the concatenation of at most MaxParts fragments
MaxParts == 2

T_5 == <<"5">>
T_0 == <<"0">>
T_5PLN == <<"5", "P", "L", "N">>
T_a == <<"a">>
T_boryna == <<"b", "o", "r", "y", "n", "a">>
T_iso == <<"2", "0", "2", "3", "-", "0", "7", "-", "2", "6">>
T_polish == <<"2", "6", ".", "0", "7", ".", "2", "0", "2", "3">>

AnswerFragments ==
    { T_5, <<",", "0", "4">>, <<",", "0", "6">>, <<" ">>, <<"P", "L", "N">>,
      T_0, <<"-">>, <<"A">>, T_boryna, T_polish }

SubmittedAnswers == {Concat(ps) : ps \in SeqsUpTo(AnswerFragments, MaxParts)}

ExpectedAnswers == {T_5, T_0, T_a, T_boryna, T_iso, T_polish}

\* answer_variants: null, empty, one entry, two entries
VariantLists ==
    {None, Some(<<>>), Some(<<T_5PLN>>), Some(<<T_boryna, T_5PLN>>)}

\* a number in Polish format: sign, digit groups separated by spaces,
\* decimal comma, k, unit
MaxGroups == 2

FirstGroups == {<<"5">>, <<"1", "2">>}

DecimalParts == {<<>>, <<"5">>, <<"2", "5">>}

KSuffixes == {<<>>, <<"k">>, <<" ", "k">>, <<"K">>}

\* the suffixes the docstring-level description lists
ListedUnits ==
    { W_PLN, W_zl, <<"d", "n", "i">>, <<"d", "a", "y", "s">>,
      <<"g", "o", "d", "z", "i", "n">>, <<"h", "o", "u", "r", "s">>, <<"h">>,
      <<"%">> }

UnitSuffixes ==
    {<<>>} \cup ListedUnits \cup {<<" ">> \o u : u \in ListedUnits}

NumberShapes ==
    [neg : BOOLEAN, first : FirstGroups, groups : 1..MaxGroups,
     dec : DecimalParts, k : KSuffixes, unit : UnitSuffixes]

RECURSIVE ThousandGroups(_)
ThousandGroups(n) ==
    IF n = 0 THEN <<>> ELSE <<" ", "0", "0", "0">> \o ThousandGroups(n - 1)

RenderNumber(shape) ==
    (IF shape.neg THEN <<"-">> ELSE <<>>)
    \o shape.first \o ThousandGroups(shape.groups - 1)
    \o (IF shape.dec = <<>> THEN <<>> ELSE <<",">> \o shape.dec)
    \o shape.k \o shape.unit

NumberTexts == {RenderNumber(shape) : shape \in NumberShapes}

\* texts without a digit
DigitlessTexts ==
    {<<>>, <<" ">>, <<"-">>, <<"k">>, W_PLN, <<"b", "r", "a", "k">>,
     <<",">>, <<"-", "k">>}

\* dates: a day-month-year date in Polish format, an ISO date, a year and
\* month, and near misses, between a prefix and a suffix
Days == {<<"1">>, <<"2", "6">>}

Months == {<<"2">>, <<"0", "7">>}

Years == {<<"2", "0", "2", "3">>}

DateSeparators == {<<".">>, <<"/">>}

RenderPolishDate(day, s1, month, s2, year) ==
    day \o s1 \o month \o s2 \o year

PolishDates ==
    {RenderPolishDate(d, s1, m, s2, y) :
        d \in Days, s1 \in DateSeparators, m \in Months,
        s2 \in DateSeparators, y \in Years}

T_yearmonth == <<"2", "0", "2", "3", "-", "0", "7">>

OtherDateCores ==
    { T_iso, T_yearmonth,
      <<"2", "0", "2", "3", "-", "7", "-", "2", "6">>,
      <<"2", "6", ".", "0", "7", ".", "2", "3">>,
      <<"2", "0", "2", "3", "-", "0", "7", "-", "2">>,
      <<>> }

DatePrefixes == {<<>>, <<"1">>, <<"x", " ">>}

DateSuffixes == {<<>>, <<"5">>, <<" ", "r", ".">>}

DateTexts ==
    {p \o c \o q : p \in DatePrefixes, c \in PolishDates \cup OtherDateCores,
                    q \in DateSuffixes}

NormalizeTexts == NumberTexts \cup DigitlessTexts \cup DateTexts

\* answers to a negative question: a padding of x characters before a
\* short text, with lengths around UNCERTAIN_MAX_LENGTH
Slack == 1

PadLengths ==
    {0} \cup ((UNCERTAIN_MAX_LENGTH - 1 - Slack)..(UNCERTAIN_MAX_LENGTH - 1 + Slack))

T_brak == <<"b", "r", "a", "k">>
T_tak == <<"t", "a", "k">>

NegativeCores ==
    { <<>>, <<" ">>, <<"NBSP", "\t">>, <<"?">>, T_brak, <<"B", "R", "A", "K">>,
      T_tak, <<" ", "t", "a", "k", " ">>, <<"N", "/", "a">>,
      <<"n", "i", "e", " ", "w", "i", "e", "m">>,
      <<"N", "i", "e", " ", " ", "w", "i", "e", "m">>,
      <<"n", "i", "e", " ", "M", "O", "Z_DOT", "N", "A", " ", "u", "s", "t",
        "a", "l", "i", "c_acute">>,
      <<"b", "r", "a", "?">>, <<"t", "?", " ">> }

NegativeAnswers ==
    {Repeat("x", n) \o c : n \in PadLengths, c \in NegativeCores}

\* document ids doc_1 .. doc_9
DigitChars == <<"1", "2", "3", "4", "5", "6", "7", "8", "9">>

DocId(n) == DocPrefix \o <<DigitChars[n]>>

\* an expected id list holds the first n ids, n <= MaxExpected
MaxExpected == 5

ExpectedIdLists ==
    {[k \in 1..n |-> DocId(k)] : n \in 0..MaxExpected}
    \cup {<<DocId(1), DocId(1), DocId(2)>>}

\* what an answer can mention: the ids, one in capitals, one with a longer
\* number
Mentions ==
    {DocId(n) : n \in 2..MaxExpected}
    \cup {<<"D", "O", "C", "_", "1">>, <<"d", "o", "c", "_", "1", "2">>,
          <<"d", "o", "c", "1">>}

RECURSIVE JoinMentions(_)
JoinMentions(S) ==
    IF S = {} THEN <<>>
    ELSE LET m == CHOOSE x \in S : TRUE
         IN m \o <<",", " ">> \o JoinMentions(S \ {m})

TemporalAnswers == {JoinMentions(S) : S \in SUBSET Mentions}

\* ground truth: at most MaxQuestions questions, in the order of their
\* categories, with distinct ids; each is answered or not
MaxQuestions == 2

QuestionIds == <<"q001", "q002", "q003", "q004">>

InputCategories ==
    << "exact_match_questions", "database_questions", "qualitative_questions",
       "negative_questions", "temporal_filter_questions" >>

T_x80 == Repeat("x", AUTO_SCORE_MAX_LENGTH)
T_x81 == Repeat("x", AUTO_SCORE_MAX_LENGTH + 1)

Unanswered == None

AutoCases ==
    { [section |-> c, q |-> q, answer |-> a] :
        c \in {1, 2},
        q \in { [expected_answer |-> T_5, answer_variants |-> Some(<<T_5PLN>>)],
                [expected_answer |-> T_x80],
                [expected_answer |-> T_x81] },
        a \in {Unanswered, Some(T_5PLN), Some(T_x80)} }

QualitativeCases ==
    { [section |-> 3, q |-> [rubric_id |-> "r1"], answer |-> a] :
        a \in {Unanswered, Some(T_tak)} }

NegativeCases ==
    { [section |-> 4, q |-> [expected_behavior |-> T_brak], answer |-> a] :
        a \in {Unanswered, Some(T_brak), Some(T_tak)} }

TemporalCases ==
    { [section |-> 5, q |-> q, answer |-> a] :
        q \in { [expected_document_ids |-> <<DocId(1)>>],
                [expected_document_ids |-> [k \in 1..5 |-> DocId(k)]],
                [rubric_id |-> "r1"] },
        a \in { Unanswered, Some(T_tak),
                Some(JoinMentions({DocId(1), DocId(2), DocId(3), DocId(4)})) } }

QuestionCases ==
    AutoCases \cup QualitativeCases \cup NegativeCases \cup TemporalCases

\* the questions of section c among cases[k..], with their ids
RECURSIVE QuestionsOf(_, _, _)
QuestionsOf(cases, c, k) ==
    IF k > Len(cases) THEN <<>>
    ELSE (IF cases[k].section = c
          THEN <<[id |-> QuestionIds[k]] @@ cases[k].q>> ELSE <<>>)
         \o QuestionsOf(cases, c, k + 1)

GroundTruthOf(cases) ==
    [c \in {InputCategories[cases[k].section] : k \in 1..Len(cases)} |->
        QuestionsOf(cases,
                    CHOOSE i \in 1..Len(InputCategories) : InputCategories[i] = c,
                    1)]

SubmissionsOf(cases) ==
    [qid \in {QuestionIds[k] : k \in {j \in 1..Len(cases) :
                                        cases[j].answer # Unanswered}} |->
        Val(cases[CHOOSE k \in 1..Len(cases) : QuestionIds[k] = qid].answer)]

CaseLists ==
    {cases \in SeqsUpTo(QuestionCases, MaxQuestions) :
        \A k \in 1..(Len(cases) - 1) : cases[k].section <= cases[k + 1].section}

-----------------------------------------------------------------------------
(* The functions called on their own                                       *)

NoArg == <<>>

\* the database generator is not running
DbIdle ==
    /\ db_def = <<>>
    /\ db = <<>>
    /\ counts = <<>>
    /\ conn = "none"

\* the file generator is not running
FilesIdle ==
    /\ documents = <<>>
    /\ no_timestamps = FALSE
    /\ doc_i = 0
    /\ generated = 0
    /\ skipped = 0
    /\ files = <<>>

\* no scoring guide is being printed
GuideIdle == rubric = <<>>

EvalIdle ==
    /\ ground_truth = <<>>
    /\ submissions = <<>>
    /\ results = <<>>
    /\ cat = 0
    /\ idx = 0
    /\ DbIdle /\ FilesIdle /\ GuideIdle

InitExactMatch ==
    /\ pc = "call_exact_match"
    /\ arg_submitted \in SubmittedAnswers
    /\ arg_expected \in ExpectedAnswers
    /\ arg_variants \in VariantLists
    /\ arg_doc_ids = NoArg
    /\ ret = None
    /\ EvalIdle

CallExactMatch ==
    /\ pc = "call_exact_match"
    /\ ret' = Some(check_exact_match(arg_submitted, arg_expected, arg_variants))
    /\ pc' = "exact_match_returned"
    /\ UNCHANGED <<arg_submitted, arg_expected, arg_variants, arg_doc_ids>>
    /\ UNCHANGED <<evalVars, toolVars>>

SpecExactMatch == InitExactMatch /\ [][CallExactMatch]_vars

InitNormalize ==
    /\ pc = "call_normalize"
    /\ arg_submitted \in NormalizeTexts
    /\ arg_expected = NoArg
    /\ arg_variants = NoArg
    /\ arg_doc_ids = NoArg
    /\ ret = None
    /\ EvalIdle

CallNormalizeNumber ==
    /\ pc = "call_normalize"
    /\ ret' = normalize_number(arg_submitted)
    /\ pc' = "number_returned"
    /\ UNCHANGED <<arg_submitted, arg_expected, arg_variants, arg_doc_ids>>
    /\ UNCHANGED <<evalVars, toolVars>>

CallNormalizeDate ==
    /\ pc = "call_normalize"
    /\ ret' = normalize_date(arg_submitted)
    /\ pc' = "date_returned"
    /\ UNCHANGED <<arg_submitted, arg_expected, arg_variants, arg_doc_ids>>
    /\ UNCHANGED <<evalVars, toolVars>>

SpecNormalize ==
    InitNormalize /\ [][CallNormalizeNumber \/ CallNormalizeDate]_vars

CallIdle ==
    /\ arg_submitted = NoArg
    /\ arg_expected = NoArg
    /\ arg_variants = NoArg
    /\ arg_doc_ids = NoArg
    /\ ret = None
    /\ DbIdle /\ FilesIdle /\ GuideIdle

InitNegative ==
    /\ pc = "call_negative"
    /\ arg_submitted \in NegativeAnswers
    /\ arg_expected = NoArg
    /\ arg_variants = NoArg
    /\ arg_doc_ids = NoArg
    /\ ret = None
    /\ EvalIdle

CallNegative ==
    /\ pc = "call_negative"
    /\ ret' = Some(check_negative_question(arg_submitted))
    /\ pc' = "negative_returned"
    /\ UNCHANGED <<arg_submitted, arg_expected, arg_variants, arg_doc_ids>>
    /\ UNCHANGED <<evalVars, toolVars>>

InitTemporal ==
    /\ pc = "call_temporal"
    /\ arg_submitted \in TemporalAnswers
    /\ arg_doc_ids \in ExpectedIdLists
    /\ arg_expected = NoArg
    /\ arg_variants = NoArg
    /\ ret = None
    /\ EvalIdle

CallTemporal ==
    /\ pc = "call_temporal"
    /\ ret' = Some(check_temporal_filter(arg_submitted, arg_doc_ids))
    /\ pc' = "temporal_returned"
    /\ UNCHANGED <<arg_submitted, arg_expected, arg_variants, arg_doc_ids>>
    /\ UNCHANGED <<evalVars, toolVars>>

-----------------------------------------------------------------------------
(* evaluate_submissions run on a ground truth and a set of submissions     *)

Init ==
    /\ pc = "auto"
    /\ cat = 1
    /\ idx = 1
    /\ \E cases \in CaseLists :
          /\ ground_truth = GroundTruthOf(cases)
          /\ submissions = SubmissionsOf(cases)
    /\ results = EmptyResults
    /\ CallIdle

Next == NextEval

Spec == Init /\ [][Next]_vars

\* the negative matcher on its own and inside evaluate_submissions
SpecNegative == (InitNegative \/ Init) /\ [][CallNegative \/ NextEval]_vars

\* the temporal matcher on its own and inside evaluate_submissions
SpecTemporal == (InitTemporal \/ Init) /\ [][CallTemporal \/ NextEval]_vars

-----------------------------------------------------------------------------
(* scripts/generate_database.py: the SQLite database built from            *)
(* database.json.  A table is [key |-> declared type of its id column,     *)
(* rows |-> the rows in insertion order]; the database is [tables |->      *)
(* table name -> table, indexes |-> whether the indexes exist, views |->   *)
(* names of the views].                                                    *)

\* the creation and insertion order, the same list in both functions
table_order ==
    <<"employees", "clients", "contacts", "projects", "project_assignments",
      "time_entries", "invoices", "expenses">>

InTableOrder(t) == \E k \in 1..Len(table_order) : table_order[k] = t

\* column types are pasted into CREATE TABLE as written in the schema; the
\* id column is a key whose conflict clause is either the default (the
\* INSERT fails) or ON CONFLICT IGNORE (the INSERT is dropped silently)
KeyAbort == "INTEGER PRIMARY KEY"

KeyIgnore == "INTEGER PRIMARY KEY ON CONFLICT IGNORE"

\* a fresh database file
EmptyDb == [tables |-> <<>>, indexes |-> FALSE, views |-> {}]

\* CREATE TABLE IF NOT EXISTS for every table of table_order in the schema
create_schema(tables, schema) ==
    LET created == {t \in DOMAIN schema : InTableOrder(t)}
    IN [t \in DOMAIN tables \cup created |->
           IF t \in DOMAIN tables THEN tables[t]
           ELSE [key |-> schema[t].columns.id, rows |-> <<>>]]

\* values = [row.get(col) for col in columns]
RowValues(row, columns) == [col \in columns |-> Get(row, col, None)]

\* cursor.execute(insert_sql, values) for rows[i..]: the rows of the table
\* afterwards, and whether an INSERT raised
RECURSIVE InsertRowsFrom(_, _, _, _)
InsertRowsFrom(table, rows, columns, i) ==
    IF i > Len(rows) THEN [raised |-> FALSE, table |-> table]
    ELSE LET values == RowValues(rows[i], columns)
             taken  == \E k \in 1..Len(table.rows) :
                           table.rows[k].id = values.id
         IN IF ~taken
            THEN InsertRowsFrom([table EXCEPT !.rows = Append(@, values)],
                                rows, columns, i + 1)
            ELSE IF table.key = KeyIgnore
            THEN InsertRowsFrom(table, rows, columns, i + 1)
            ELSE [raised |-> TRUE, table |-> table]

\* the loop of insert_data from position k of table_order
RECURSIVE InsertTablesFrom(_, _, _, _)
InsertTablesFrom(tables, data, cnt, k) ==
    IF k > Len(table_order)
    THEN [raised |-> FALSE, tables |-> tables, counts |-> cnt]
    ELSE LET table_name == table_order[k]
         IN IF table_name \notin DOMAIN data
            THEN InsertTablesFrom(tables, data, cnt, k + 1)
            ELSE IF data[table_name] = <<>>
            THEN InsertTablesFrom(tables, data, cnt, k + 1)
            ELSE IF table_name \notin DOMAIN tables
            THEN [raised |-> TRUE, tables |-> tables, counts |-> cnt]
            ELSE LET rows == data[table_name]
                     r    == InsertRowsFrom(tables[table_name], rows,
                                            DOMAIN rows[1], 1)
                 IN IF r.raised
                    THEN [raised |-> TRUE, tables |-> tables, counts |-> cnt]
                    ELSE InsertTablesFrom(
                             [tables EXCEPT ![table_name] = r.table], data,
                             (table_name :> Len(rows)) @@ cnt, k + 1)

\* insert_data: the tables after the commit and the counts returned, or
\* raised when an INSERT fails (no such table, or a key already present)
insert_data(tables, data) == InsertTablesFrom(tables, data, <<>>, 1)

\* the tables the CREATE INDEX statements name
IndexedTables ==
    {"contacts", "projects", "time_entries", "invoices", "expenses", "clients"}

SumOver(S, f(_)) ==
    LET RECURSIVE Total(_)
        Total(T) == IF T = {} THEN 0
                    ELSE LET x == CHOOSE y \in T : TRUE
                         IN f(x) + Total(T \ {x})
    IN Total(S)

ViewNames ==
    {"v_project_summary", "v_client_revenue", "v_employee_hours"}

\* mutation: the join keeps invoices of every status
v_client_revenue_AnyStatus(tables) ==
    LET c == tables["clients"].rows
        i == tables["invoices"].rows
        Joined(id) ==
            {p \in (1..Len(c)) \X (1..Len(i)) :
                c[p[1]].id = id /\ i[p[2]].client_id = id}
        Net(p)   == i[p[2]].amount_net
        Gross(p) == i[p[2]].amount_gross
    IN {[id                  |-> id,
         invoice_count       |-> Cardinality({i[p[2]].id : p \in Joined(id)}),
         total_revenue_net   |-> SumOver(Joined(id), Net),
         total_revenue_gross |-> SumOver(Joined(id), Gross)] :
           id \in {c[k].id : k \in 1..Len(c)}}

\* SELECT * FROM v_client_revenue: clients LEFT JOIN invoices ON c.id =
\* i.client_id AND i.status = 'paid', GROUP BY c.id, with COUNT(DISTINCT
\* i.id) and COALESCE(SUM(...), 0); the columns code, name, industry and
\* status of the client are left out
v_client_revenue(tables) ==
    LET c == tables["clients"].rows
        i == tables["invoices"].rows
        Joined(id) ==
            {p \in (1..Len(c)) \X (1..Len(i)) :
                /\ c[p[1]].id = id
                /\ i[p[2]].client_id = id
                /\ i[p[2]].status = "paid"}
        Net(p)   == i[p[2]].amount_net
        Gross(p) == i[p[2]].amount_gross
    IN {[id                  |-> id,
         invoice_count       |-> Cardinality({i[p[2]].id : p \in Joined(id)}),
         total_revenue_net   |-> SumOver(Joined(id), Net),
         total_revenue_gross |-> SumOver(Joined(id), Gross)] :
           id \in {c[k].id : k \in 1..Len(c)}}

\* mutation: one table with the expected count is enough
verify_database_AnyTable(tables, expected_counts) ==
    \E table_name \in DOMAIN expected_counts :
        Len(tables[table_name].rows) = expected_counts[table_name]

\* verify_database: all_ok, for expected_counts naming existing tables
verify_database(tables, expected_counts) ==
    \A table_name \in DOMAIN expected_counts :
        Len(tables[table_name].rows) = expected_counts[table_name]

\* main of generate_database.py, from sqlite3.connect on a removed file to
\* the exit of the process

CallsIdle ==
    /\ arg_submitted = NoArg
    /\ arg_expected = NoArg
    /\ arg_variants = NoArg
    /\ arg_doc_ids = NoArg
    /\ ground_truth = <<>>
    /\ submissions = <<>>
    /\ results = <<>>
    /\ cat = 0
    /\ idx = 0

dbRest ==
    <<arg_submitted, arg_expected, arg_variants, arg_doc_ids, evalVars,
      fileVars, rubric>>

\* create_schema(conn, db_def["schema"])
MainCreateSchema ==
    /\ pc = "db_schema"
    /\ db' = [db EXCEPT !.tables = create_schema(@, db_def.schema)]
    /\ pc' = "db_insert"
    /\ UNCHANGED <<db_def, counts, conn, ret, dbRest>>

\* counts = insert_data(conn, db_def["data"]); an INSERT that raises leaves
\* the transaction uncommitted, and closing the connection rolls it back
MainInsertData ==
    /\ pc = "db_insert"
    /\ LET r == insert_data(db.tables, db_def.data)
       IN IF r.raised
          THEN /\ pc' = "db_raised"
               /\ UNCHANGED <<db, counts>>
          ELSE /\ pc' = "db_indexes"
               /\ db' = [db EXCEPT !.tables = r.tables]
               /\ counts' = Some(r.counts)
    /\ UNCHANGED <<db_def, conn, ret, dbRest>>

\* create_indexes(conn): CREATE INDEX raises on a table that does not exist
MainCreateIndexes ==
    /\ pc = "db_indexes"
    /\ IF IndexedTables \subseteq DOMAIN db.tables
       THEN /\ db' = [db EXCEPT !.indexes = TRUE]
            /\ pc' = "db_views"
       ELSE /\ pc' = "db_raised"
            /\ UNCHANGED db
    /\ UNCHANGED <<db_def, counts, conn, ret, dbRest>>

\* create_views(conn)
MainCreateViews ==
    /\ pc = "db_views"
    /\ db' = [db EXCEPT !.views = @ \cup ViewNames]
    /\ pc' = "db_verify"
    /\ UNCHANGED <<db_def, counts, conn, ret, dbRest>>

\* if verify_database(conn, counts): ... else: raise SystemExit(1)
MainVerify ==
    /\ pc = "db_verify"
    /\ LET ok == verify_database(db.tables, Val(counts))
       IN /\ ret' = Some(ok)
          /\ pc' = IF ok THEN "db_verified" ELSE "db_failed"
    /\ UNCHANGED <<db_def, db, counts, conn, dbRest>>

\* finally: conn.close(), then the process ends: status 0 after a verified
\* database, status 1 after SystemExit(1) or an uncaught exception
MainClose ==
    /\ pc \in {"db_verified", "db_failed", "db_raised"}
    /\ conn' = "closed"
    /\ pc' = IF pc = "db_verified" THEN "db_exit_0" ELSE "db_exit_1"
    /\ UNCHANGED <<db_def, db, counts, ret, dbRest>>

NextDatabase ==
    \/ MainCreateSchema
    \/ MainInsertData
    \/ MainCreateIndexes
    \/ MainCreateViews
    \/ MainVerify
    \/ MainClose

\* bounded database.json inputs
MaxClientRows == 2

MaxInvoiceRows == 2

\* the tables the dataset's schema must define
RequiredTables ==
    {"employees", "clients", "contacts", "projects", "time_entries",
     "invoices", "expenses"}

\* a table of table_order the schema need not define, and one outside it;
\* the schema defines the optional tables of the data, or none of them
OptionalTables == {"project_assignments", "tags"}

ClientRowLists ==
    UNION {[1..n -> {[id |-> c] : c \in 1..2}] : n \in 1..MaxClientRows}

Invoice(id, client_id, status, amount_net) ==
    [id |-> id, client_id |-> client_id, status |-> status,
     amount_net |-> amount_net, amount_gross |-> amount_net + 23]

InvoiceChoices ==
    {Invoice(1, 1, "paid", 100), Invoice(2, 1, "paid", 250),
     Invoice(2, 1, "sent", 250), Invoice(3, 2, "sent", 40)}

InvoiceRowLists == UNION {[1..n -> InvoiceChoices] : n \in 0..MaxInvoiceRows}

SchemaOf(key, extra) ==
    [t \in RequiredTables \cup extra |-> [columns |-> [id |-> key]]]

DataOf(clients, invoices, extra) ==
    [t \in {"employees", "clients", "invoices", "expenses"} \cup extra |->
        CASE t = "clients"  -> clients
          [] t = "invoices" -> invoices
          [] t = "expenses" -> <<>>
          [] OTHER          -> <<[id |-> 1]>>]

DbDefs ==
    {[schema |-> SchemaOf(key, x[1]), data |-> DataOf(c, i, x[2])] :
        key \in {KeyAbort, KeyIgnore},
        x \in {y \in (SUBSET OptionalTables) \X (SUBSET OptionalTables) :
                  y[1] = {} \/ y[1] = y[2]},
        c \in ClientRowLists, i \in InvoiceRowLists}

InitDatabase ==
    /\ pc = "db_schema"
    /\ db_def \in DbDefs
    /\ db = EmptyDb
    /\ counts = None
    /\ conn = "open"
    /\ ret = None
    /\ CallsIdle /\ FilesIdle /\ GuideIdle

SpecDatabase == InitDatabase /\ [][NextDatabase]_vars

-----------------------------------------------------------------------------
(* scripts/generate_files.py: the loop of main over the documents of       *)
(* documents.json.  A document type is a sequence of characters, a format  *)
(* a string; a file written is [doc |-> index of the document, generator   *)
(* |-> name of the function that wrote it].                                *)

W_email == <<"e", "m", "a", "i", "l">>

W_meeting_notes ==
    <<"m", "e", "e", "t", "i", "n", "g", "_", "n", "o", "t", "e", "s">>

W_project_kickoff ==
    <<"p", "r", "o", "j", "e", "c", "t", "_", "k", "i", "c", "k", "o", "f",
      "f">>

W_report_quarterly ==
    <<"r", "e", "p", "o", "r", "t", "_", "q", "u", "a", "r", "t", "e", "r",
      "l", "y">>

W_report_monthly ==
    <<"r", "e", "p", "o", "r", "t", "_", "m", "o", "n", "t", "h", "l", "y">>

W_report_project ==
    <<"r", "e", "p", "o", "r", "t", "_", "p", "r", "o", "j", "e", "c", "t">>

W_proposal == <<"p", "r", "o", "p", "o", "s", "a", "l">>

W_spreadsheet == <<"s", "p", "r", "e", "a", "d", "s", "h", "e", "e", "t">>

W_presentation ==
    <<"p", "r", "e", "s", "e", "n", "t", "a", "t", "i", "o", "n">>

W_memo == <<"m", "e", "m", "o">>

\* doc_type in ["meeting_notes", "project_kickoff"]
MdTypes == {W_meeting_notes, W_project_kickoff}

\* doc_type in ["report_quarterly", "report_monthly", "report_project",
\* "proposal"]
DocxTypes == {W_report_quarterly, W_report_monthly, W_report_project, W_proposal}

\* the if/elif chain of the loop: the function called for the document, or
\* "none" for the else branch
generator_for(doc) ==
    LET doc_type == doc.type
        fmt      == Get(doc, "format", "")
    IN IF fmt = "pdf"
       THEN LET difficulty == Get(doc, "pdf_difficulty", "easy")
            IN IF difficulty = "easy" THEN "generate_pdf_easy"
               ELSE "generate_pdf_hard"
       ELSE IF fmt = "eml" \/ Contains(doc_type, W_email)
       THEN "generate_eml"
       ELSE IF fmt = "md" \/ doc_type \in MdTypes
       THEN "generate_md"
       ELSE IF fmt = "docx" \/ doc_type \in DocxTypes
       THEN "generate_docx"
       ELSE IF fmt = "xlsx" \/ Contains(doc_type, W_spreadsheet)
       THEN "generate_xlsx"
       ELSE IF fmt = "pptx" \/ Contains(doc_type, W_presentation)
       THEN "generate_pptx"
       ELSE "none"

InFilesLoop == pc = "files_loop" /\ doc_i <= Len(documents)

fileRest ==
    <<arg_submitted, arg_expected, arg_variants, arg_doc_ids, ret, evalVars,
      dbVars, rubric>>

\* else: skipped += 1; continue
LoopSkipUnknown ==
    /\ InFilesLoop
    /\ generator_for(documents[doc_i]) = "none"
    /\ skipped' = skipped + 1
    /\ doc_i' = doc_i + 1
    /\ UNCHANGED <<pc, documents, no_timestamps, generated, files, fileRest>>

\* the generator raises before its file is written: except Exception:
\* skipped += 1
LoopGeneratorRaises ==
    /\ InFilesLoop
    /\ generator_for(documents[doc_i]) # "none"
    /\ skipped' = skipped + 1
    /\ doc_i' = doc_i + 1
    /\ UNCHANGED <<pc, documents, no_timestamps, generated, files, fileRest>>

\* the generator writes its file: generated += 1; the timestamps are set
\* without an error, or are not set at all under --no-timestamps
LoopGenerated ==
    /\ InFilesLoop
    /\ generator_for(documents[doc_i]) # "none"
    /\ files' = Append(files, [doc |-> doc_i,
                               generator |-> generator_for(documents[doc_i])])
    /\ generated' = generated + 1
    /\ doc_i' = doc_i + 1
    /\ UNCHANGED <<pc, documents, no_timestamps, skipped, fileRest>>

\* the generator writes its file: generated += 1; then set_file_timestamps
\* (or doc["filename"]) raises: except Exception: skipped += 1
LoopTimestampsRaise ==
    /\ InFilesLoop
    /\ generator_for(documents[doc_i]) # "none"
    /\ ~no_timestamps
    /\ files' = Append(files, [doc |-> doc_i,
                               generator |-> generator_for(documents[doc_i])])
    /\ generated' = generated + 1
    /\ skipped' = skipped + 1
    /\ doc_i' = doc_i + 1
    /\ UNCHANGED <<pc, documents, no_timestamps, fileRest>>

\* after the loop: the check that generated + skipped documents were
\* processed, which ends the run with SystemExit(1) when it fails
ValidateProcessed ==
    /\ pc = "files_loop"
    /\ doc_i > Len(documents)
    /\ pc' = IF generated + skipped # Len(documents) THEN "files_exit_1"
             ELSE "files_processed"
    /\ UNCHANGED <<fileVars, fileRest>>

NextFiles ==
    \/ LoopSkipUnknown
    \/ LoopGeneratorRaises
    \/ LoopGenerated
    \/ LoopTimestampsRaise
    \/ ValidateProcessed

\* bounded documents.json inputs
MaxDocuments == 2

DocumentTypes == {W_email, W_meeting_notes, W_memo, W_presentation}

DocumentChoices ==
    {[type |-> t] : t \in DocumentTypes}
    \cup {[type |-> t, format |-> f] :
            t \in DocumentTypes, f \in {"pdf", "md", "docx", "txt"}}
    \cup {[type |-> W_memo, format |-> "pdf", pdf_difficulty |-> d] :
            d \in {"easy", "hard"}}

DocumentLists == UNION {[1..n -> DocumentChoices] : n \in 0..MaxDocuments}

InitFiles ==
    /\ pc = "files_loop"
    /\ documents \in DocumentLists
    /\ no_timestamps \in BOOLEAN
    /\ doc_i = 1
    /\ generated = 0
    /\ skipped = 0
    /\ files = <<>>
    /\ ret = None
    /\ CallsIdle /\ DbIdle /\ GuideIdle

SpecFiles == InitFiles /\ [][NextFiles]_vars

-----------------------------------------------------------------------------
(* scripts/evaluate.py: the scoring guide printed with a rubric, by        *)
(* format_markdown_report and by make_review_panel of print_rich_report    *)

\* round(n_should * 0.75): Python rounds a half to the even neighbour
RoundThreeQuarters(n_should) ==
    LET q == (3 * n_should) \div 4
        r == (3 * n_should) % 4
    IN IF r < 2 THEN q
       ELSE IF r > 2 THEN q + 1
       ELSE IF q % 2 = 0 THEN q ELSE q + 1

\* fmt_range: the numbers printed, one when lo == hi ("3"), else two ("1-2")
fmt_range(lo, hi) == IF lo = hi THEN <<lo>> ELSE <<lo, hi>>

\* the lines "Scoring (0-5, ...)" to "1: ... MUST": the counts printed and
\* the MUST ranges printed for the scores 3, 2 and 1
scoring_guide(r) ==
    LET n_must   == Len(Get(r, "must_mention", <<>>))
        n_should == Len(Get(r, "should_mention", <<>>))
        s_high   == Max2(1, RoundThreeQuarters(n_should))
    IN [n_must |-> n_must, n_should |-> n_should, s_high |-> s_high,
        score3 |-> fmt_range(n_must - 1, n_must - 1),
        score2 |-> fmt_range(n_must \div 2 + 1, n_must - 2),
        score1 |-> fmt_range(1, n_must \div 2)]

guideRest ==
    <<arg_submitted, arg_expected, arg_variants, arg_doc_ids, evalVars,
      dbVars, fileVars>>

\* format_markdown_report, for a human-review entry whose rubric is found
FormatMarkdownGuide ==
    /\ pc = "guide"
    /\ rubric # <<>>
    /\ ret' = Some(scoring_guide(rubric))
    /\ pc' = "markdown_guide"
    /\ UNCHANGED <<rubric, guideRest>>

\* make_review_panel, for an entry without reference answer whose rubric
\* is found
ReviewPanelGuide ==
    /\ pc = "guide"
    /\ rubric # <<>>
    /\ ret' = Some(scoring_guide(rubric))
    /\ pc' = "panel_guide"
    /\ UNCHANGED <<rubric, guideRest>>

NextGuide == FormatMarkdownGuide \/ ReviewPanelGuide

\* bounded rubrics: must_mention is required, should_mention is optional
MaxMust == 8

MaxShould == 8

Items(n) == [k \in 1..n |-> k]

Rubrics ==
    {[must_mention |-> Items(m), scoring |-> "0-5"] : m \in 0..MaxMust}
    \cup {[must_mention |-> Items(m), should_mention |-> Items(n),
           scoring |-> "0-5"] : m \in 0..MaxMust, n \in 0..MaxShould}

InitGuide ==
    /\ pc = "guide"
    /\ rubric \in Rubrics
    /\ ret = None
    /\ CallsIdle /\ DbIdle /\ FilesIdle

SpecGuide == InitGuide /\ [][NextGuide]_vars

-----------------------------------------------------------------------------
(* Claims on check_exact_match, checked under SpecExactMatch               *)

ExactMatchReturned == pc = "exact_match_returned"

\* C1: for every submitted answer, expected answer and variant list (None
\* and the empty list included) check_exact_match returns one of the three
\* values 0.0, 0.5 and 1.0.
C1_ScoreIsOneOfThree ==
    ExactMatchReturned => Val(ret) \in {0, 5, 10}

C1_Witness ==
    /\ ExactMatchReturned
    /\ arg_variants = None
    /\ Val(ret) = 5

\* the submitted answer equals, after text normalization, the expected
\* answer or one of the variants
TextOrVariantEqual ==
    \/ normalize_text(arg_submitted) = normalize_text(arg_expected)
    \/ /\ arg_variants # None
       /\ \E v \in ToSet(Val(arg_variants)) :
             normalize_text(v) = normalize_text(arg_submitted)

\* C2: check_exact_match returns 1.0 exactly when the text-normalized
\* submitted answer equals the text-normalized expected answer or variant;
\* no numeric, date or containment match alone yields 1.0, and a text or
\* variant match yields 1.0 even where a partial-credit rule applies too.
C2_FullCreditIffTextOrVariant ==
    ExactMatchReturned => (Val(ret) = 10 <=> TextOrVariantEqual)

C2_Witness ==
    /\ ExactMatchReturned
    /\ normalize_text(arg_submitted) # normalize_text(arg_expected)
    /\ TextOrVariantEqual
    /\ NumericMatch(arg_submitted, arg_expected)
    /\ Val(ret) = 10

\* |s - e| < max(0.01, 0.01 * |e|) on the scale of n >= 2 decimals, where
\* the difference is an integer D: D < 10^(n-2), or D is below the hundredth
\* part of |e|, that is D <= (|e| - 1) div 100
WithinOnePercent(s, e) ==
    LET n == Max2(Max2(s.d, e.d), 2)
        D == Abs(Scaled(s, n) - Scaled(e, n))
        E == Abs(Scaled(e, n))
    IN D < Pow10(n - 2) \/ (E > 0 /\ D <= (E - 1) \div 100)

BothNumbers ==
    /\ normalize_number(arg_submitted) # None
    /\ normalize_number(arg_expected) # None

\* C3: without a text or variant match, when both answers yield numbers s
\* and e with |s - e| < max(0.01, 0.01 * |e|), check_exact_match returns 0.5.
C3_NumericPartialCredit ==
    (/\ ExactMatchReturned
     /\ ~TextOrVariantEqual
     /\ BothNumbers
     /\ WithinOnePercent(Val(normalize_number(arg_submitted)),
                         Val(normalize_number(arg_expected))))
    => Val(ret) = 5

C3_Witness ==
    /\ ExactMatchReturned
    /\ ~TextOrVariantEqual
    /\ BothNumbers
    /\ ~FloatEq(Val(normalize_number(arg_submitted)),
                Val(normalize_number(arg_expected)))
    /\ WithinOnePercent(Val(normalize_number(arg_submitted)),
                        Val(normalize_number(arg_expected)))
    /\ Val(ret) = 5

-----------------------------------------------------------------------------
(* Claims on normalize_date and normalize_number, under SpecNormalize      *)

DateReturned == pc = "date_returned"

NumberReturned == pc = "number_returned"

\* four digits, a hyphen, two digits, a hyphen, two digits
IsYMD(s) ==
    /\ Len(s) = 10
    /\ \A i \in {1, 2, 3, 4, 6, 7, 9, 10} : s[i] \in Digits
    /\ s[5] = "-" /\ s[8] = "-"

\* four digits, a hyphen, two digits
IsYM(s) ==
    /\ Len(s) = 7
    /\ \A i \in {1, 2, 3, 4, 6, 7} : s[i] \in Digits
    /\ s[5] = "-"

HasYMD(s) == \E i \in 1..Len(s) : i + 9 <= Len(s) /\ IsYMD(SubSeq(s, i, i + 9))

Pad2(s) == IF Len(s) = 1 THEN <<"0">> \o s ELSE s

\* a date in Polish format, not preceded by a digit, is converted with day
\* and month padded to two digits
PolishDatesConverted ==
    \A d \in Days, s1 \in DateSeparators, m \in Months,
       s2 \in DateSeparators, y \in Years, q \in DateSuffixes,
       p \in {<<>>, <<"x", " ">>} :
        arg_submitted = p \o d \o s1 \o m \o s2 \o y \o q
            => ret = Some(y \o <<"-">> \o Pad2(m) \o <<"-">> \o Pad2(d))

RECURSIVE Thousands(_)
Thousands(n) == IF n = 0 THEN 1 ELSE 1000 * Thousands(n - 1)

NumberValue(shape) ==
    LET whole == ToInt(shape.first) * Thousands(shape.groups - 1)
        mag   == whole * Pow10(Len(shape.dec)) + ToInt(shape.dec)
        x     == [m |-> IF shape.neg THEN -mag ELSE mag, d |-> Len(shape.dec)]
    IN IF shape.k = <<>> THEN x ELSE Times1000(x)

HasDigit(s) == \E i \in 1..Len(s) : s[i] \in Digits

\* C10: normalize_number extracts the numeric value from Polish-formatted
\* text: the listed currency and unit suffixes are ignored, a space thousand
\* separator is removed, a decimal comma is read as a decimal point, a
\* trailing k multiplies by 1000, and text without any digit gives None.
C10_ExtractsNumericValue ==
    NumberReturned =>
        /\ ~HasDigit(arg_submitted) => ret = None
        /\ \A shape \in NumberShapes :
              arg_submitted = RenderNumber(shape)
                  => ret # None /\ FloatEq(Val(ret), NumberValue(shape))

-----------------------------------------------------------------------------
(* Claims on evaluate_submissions, checked under Spec                      *)

Evaluating == pc \in {"auto", "qualitative", "negative", "temporal", "summary", "done"}

Done == pc = "done"

IdsOf(list) == {list[k].id : k \in 1..Len(list)}

QuestionsIn(categories) ==
    UNION {ToSet(ground_truth[c]) : c \in categories \cap DOMAIN ground_truth}

AutoQuestions == QuestionsIn(ToSet(auto_score_categories))

AllQuestions ==
    QuestionsIn(ToSet(auto_score_categories)
                \cup {"qualitative_questions", "negative_questions",
                      "temporal_filter_questions"})

ExpectedLength(q) == Len(Get(q, "expected_answer", <<>>))

\* the question q is listed for human review with the answer submitted for
\* it, or with "[NOT ANSWERED]"
ReviewedWithAnswer(q) ==
    \E k \in 1..Len(results.human_review) :
        /\ results.human_review[k].id = q.id
        /\ results.human_review[k].submitted =
              (IF q.id \in DOMAIN submissions THEN submissions[q.id]
               ELSE NOT_ANSWERED)

\* C4: a question of an auto-score category whose expected answer is longer
\* than 80 characters is put in human_review (with the submitted answer or
\* "[NOT ANSWERED]") and never in auto_scored or not_answered; one whose
\* expected answer has 80 characters or fewer is never put in human_review.
C4_LongAnswersToHumanReview ==
    Evaluating =>
        \A q \in AutoQuestions :
            IF ExpectedLength(q) > 80
            THEN /\ q.id \notin IdsOf(results.auto_scored)
                 /\ q.id \notin IdsOf(results.not_answered)
                 /\ Done => ReviewedWithAnswer(q)
            ELSE q.id \notin IdsOf(results.human_review)

C4_Witness ==
    /\ Done
    /\ \E q \in AutoQuestions :
          /\ ExpectedLength(q) = 81
          /\ q.id \notin DOMAIN submissions
          /\ ReviewedWithAnswer(q)
    /\ \E q \in AutoQuestions :
          /\ ExpectedLength(q) = 80
          /\ q.id \in IdsOf(results.auto_scored)

Unanswered_Ids == {q.id : q \in AllQuestions} \ DOMAIN submissions

ReviewQuestions ==
    QuestionsIn({"qualitative_questions"})
    \cup {q \in AutoQuestions : ExpectedLength(q) > 80}

-----------------------------------------------------------------------------
(* Claims on check_temporal_filter, checked under SpecTemporal             *)

TemporalReturned == pc = "temporal_returned"

\* the id occurs in the lower-cased answer as a whole doc_<digits> token
Mentioned(id, answer) ==
    /\ Len(id) > 4 /\ SubSeq(id, 1, 4) = DocPrefix
    /\ \A j \in 5..Len(id) : id[j] \in Digits
    /\ \E i \in 1..Len(answer) :
          /\ MatchesAt(Lower(answer), i, id, FALSE)
          /\ ~CharAt(answer, i + Len(id), Digits)

ExpectedFound == {id \in ToSet(arg_doc_ids) : Mentioned(id, arg_submitted)}

EightyPercentFound ==
    10 * Cardinality(ExpectedFound) >= 8 * Cardinality(ToSet(arg_doc_ids))

\* summary.temporal_pass counts the temporal results that pass and does not
\* exceed summary.temporal_total
TemporalPassCounted ==
    Done =>
        /\ results.summary.temporal_pass
              = Cardinality({k \in 1..Len(results.temporal) :
                                results.temporal[k].pass})
        /\ results.summary.temporal_pass <= results.summary.temporal_total
        /\ results.summary.temporal_total = Len(results.temporal)

\* C6 as stated: check_temporal_filter reports pass exactly when at least
\* 80% of the expected document ids are found in the submitted answer, for
\* every expected id list, the empty one included; summary.temporal_pass
\* counts the passing temporal results and never exceeds temporal_total.
C6_PassIffEightyPercent ==
    /\ TemporalReturned => (Val(ret).pass <=> EightyPercentFound)
    /\ TemporalPassCounted

\* C6 amended: check_temporal_filter reports pass exactly when the expected
\* id list is not empty and at least 80% of its distinct ids are found in
\* the submitted answer; with an empty expected list pass is False;
\* summary.temporal_pass counts the passing temporal results and never
\* exceeds temporal_total.
C6_PassIffNonEmptyEightyPercent ==
    /\ TemporalReturned =>
          (Val(ret).pass <=> (arg_doc_ids # <<>> /\ EightyPercentFound))
    /\ TemporalPassCounted

C6_Witness ==
    /\ TemporalReturned
    /\ Len(arg_doc_ids) = 5
    /\ Cardinality(ExpectedFound) = 4
    /\ Val(ret).pass

\* C7: precision = |correct| / |found| (0 when no id is found), recall =
\* |correct| / |expected| (0 when nothing is expected), f1 = 2 * precision *
\* recall / (precision + recall) (0 when both are 0); all three lie between
\* 0 and 1 and no division by zero occurs.
C7_PrecisionRecallF1 ==
    TemporalReturned =>
        LET r        == Val(ret)
            found    == FindDocIds(Lower(arg_submitted))
            expct    == ToSet(arg_doc_ids)
            nCorrect == Cardinality(found \cap expct)
            p        == r.precision
            q        == r.recall
            f        == r.f1
        IN /\ p.d > 0 /\ q.d > 0 /\ f.d > 0
           /\ IF found = {} THEN p.n = 0
              ELSE p.n * Cardinality(found) = nCorrect * p.d
           /\ IF expct = {} THEN q.n = 0
              ELSE q.n * Cardinality(expct) = nCorrect * q.d
           /\ IF p.n = 0 /\ q.n = 0 THEN f.n = 0
              ELSE f.n * (p.n * q.d + q.n * p.d) = 2 * p.n * q.n * f.d
           /\ \A x \in {p, q, f} : 0 <= x.n /\ x.n <= x.d

C7_Witness ==
    /\ TemporalReturned
    /\ Val(ret).correct # {} /\ Val(ret).extra # {} /\ Val(ret).missing # {}
    /\ Val(ret).f1.n > 0 /\ Val(ret).f1.n < Val(ret).f1.d

-----------------------------------------------------------------------------
(* Claims on check_negative_question, checked under SpecNegative           *)

NegativeReturned == pc = "negative_returned"

IsBlank(s) == \A i \in 1..Len(s) : s[i] \in Whitespace

HasIndicator(s) ==
    \E k \in 1..Len(negative_indicators) :
        \E i \in 1..Len(s) : MatchesAt(s, i, negative_indicators[k], TRUE)

HasQuestionMark(s) == \E i \in 1..Len(s) : s[i] = "?"

NegativeRule(s) ==
    IsBlank(s) \/ HasIndicator(s) \/ (HasQuestionMark(s) /\ Len(s) < 50)

\* C8: check_negative_question returns True exactly when the answer is
\* empty or whitespace-only, or contains one of the listed negative
\* indicators case-insensitively, or contains a question mark and is shorter
\* than 50 characters; evaluate_submissions scores a negative question 1.0
\* when it returns True and 0.0 otherwise, never 0.5.
C8_NegativeRuleAndScore ==
    /\ NegativeReturned => (Val(ret) <=> NegativeRule(arg_submitted))
    /\ Evaluating =>
          \A k \in 1..Len(results.auto_scored) :
              results.auto_scored[k].category = "negative_questions" =>
                  results.auto_scored[k].score
                      = (IF NegativeRule(results.auto_scored[k].submitted)
                         THEN 10 ELSE 0)

C8_Witness ==
    /\ NegativeReturned
    /\ Len(arg_submitted) = 49
    /\ HasQuestionMark(arg_submitted)
    /\ ~HasIndicator(arg_submitted)
    /\ Val(ret) = TRUE

-----------------------------------------------------------------------------
(* Claims on generate_database.py, checked under SpecDatabase              *)

InsertReturned == counts # None

\* C11 as stated: after create_schema and insert_data on a fresh database,
\* every table present in the input data holds exactly as many rows as the
\* input lists for it, and the dictionary insert_data returns gives that row
\* count for every table of the input data that has rows.
C11_TablesHoldInputRows ==
    InsertReturned =>
        \A t \in DOMAIN db_def.data :
            /\ t \in DOMAIN db.tables
            /\ Len(db.tables[t].rows) = Len(db_def.data[t])
            /\ db_def.data[t] # <<>> =>
                  /\ t \in DOMAIN Val(counts)
                  /\ Val(counts)[t] = Len(db_def.data[t])

ViewsCreated == "v_client_revenue" \in db.views

ClientRows == db.tables["clients"].rows

InvoiceRows == db.tables["invoices"].rows

InvoicesOf(id) == {j \in 1..Len(InvoiceRows) : InvoiceRows[j].client_id = id}

PaidInvoicesOf(id) == {j \in InvoicesOf(id) : InvoiceRows[j].status = "paid"}

NetOf(j) == InvoiceRows[j].amount_net

GrossOf(j) == InvoiceRows[j].amount_gross

\* C12: v_client_revenue returns exactly one row per client, clients with
\* no invoice included (invoice_count 0 and revenue 0), and its
\* invoice_count and revenue totals count only that client's invoices with
\* status 'paid'.
C12_OneRowPerClientPaidOnly ==
    ViewsCreated =>
        LET view == v_client_revenue(db.tables)
        IN /\ Cardinality(view) = Len(ClientRows)
           /\ \A k \in 1..Len(ClientRows) :
                 LET id   == ClientRows[k].id
                     mine == {row \in view : row.id = id}
                 IN /\ Cardinality(mine) = 1
                    /\ \A row \in mine :
                          /\ row.invoice_count = Cardinality(PaidInvoicesOf(id))
                          /\ row.total_revenue_net
                                = SumOver(PaidInvoicesOf(id), NetOf)
                          /\ row.total_revenue_gross
                                = SumOver(PaidInvoicesOf(id), GrossOf)
                          /\ InvoicesOf(id) = {} =>
                                /\ row.invoice_count = 0
                                /\ row.total_revenue_net = 0
                                /\ row.total_revenue_gross = 0

C12_Witness ==
    /\ ViewsCreated
    /\ \E a, b \in v_client_revenue(db.tables) :
          /\ a.invoice_count = 1 /\ a.total_revenue_net = 100
          /\ InvoicesOf(a.id) # PaidInvoicesOf(a.id)
          /\ InvoicesOf(b.id) = {}
          /\ b.invoice_count = 0 /\ b.total_revenue_gross = 0

VerifyReturned ==
    pc \in {"db_verified", "db_failed", "db_exit_0", "db_exit_1"} /\ ret # None

CountsMatch ==
    \A t \in DOMAIN Val(counts) : Len(db.tables[t].rows) = Val(counts)[t]

VerifiedOrExitOne ==
    /\ VerifyReturned => (Val(ret) <=> CountsMatch)
    /\ (VerifyReturned /\ ~Val(ret)) => pc \in {"db_failed", "db_exit_1"}
    /\ pc \in {"db_exit_0", "db_exit_1"} => conn = "closed"

\* C13: verify_database returns True exactly when, for every table in
\* expected_counts, the number of rows in the database equals the expected
\* count; when it returns False the generator exits with status 1 and the
\* database connection is still closed.
C13_VerifyThenExit ==
    /\ []VerifiedOrExitOne
    /\ [][pc = "db_failed" => (pc' = "db_exit_1" /\ conn' = "closed")]_vars

C13_Witness ==
    /\ pc = "db_exit_1"
    /\ ret = Some(FALSE)
    /\ conn = "closed"
    /\ \E t \in DOMAIN Val(counts) : Len(db.tables[t].rows) < Val(counts)[t]

-----------------------------------------------------------------------------
(* Claims on generate_files.py, checked under SpecFiles                    *)

LoopFinished == pc \in {"files_loop", "files_processed", "files_exit_1"}
                /\ doc_i > Len(documents)

\* C14 as stated: in the file generator's main loop every input document is
\* counted exactly once, as generated or as skipped: after the loop
\* generated + skipped equals the number of documents, whatever generation
\* or timestamp-setting step fails.
C14_EveryDocumentCountedOnce ==
    LoopFinished => generated + skipped = Len(documents)

FormatGenerators ==
    [pdf |-> {"generate_pdf_easy", "generate_pdf_hard"},
     eml |-> {"generate_eml"}, md |-> {"generate_md"},
     docx |-> {"generate_docx"}, xlsx |-> {"generate_xlsx"},
     pptx |-> {"generate_pptx"}]

PdfGenerator(doc) ==
    IF "pdf_difficulty" \notin DOMAIN doc \/ doc.pdf_difficulty = "easy"
    THEN "generate_pdf_easy" ELSE "generate_pdf_hard"

\* the document matches no format and no type of the chain
MatchesNothing(doc) ==
    /\ Get(doc, "format", "") \notin DOMAIN FormatGenerators
    /\ ~Contains(doc.type, W_email)
    /\ doc.type \notin MdTypes \cup DocxTypes
    /\ ~Contains(doc.type, W_spreadsheet)
    /\ ~Contains(doc.type, W_presentation)

\* C15 as stated: each document is rendered by the generator that matches
\* its format field whenever that field is one of pdf, eml, md, docx, xlsx,
\* pptx (pdf: clean PDF when pdf_difficulty is "easy" or absent, scanned
\* style otherwise); the document type decides only when the format field
\* does not; a document matching no format or type is skipped without
\* creating a file.
C15_FormatFieldDecides ==
    \A k \in 1..Len(files) :
        LET doc == documents[files[k].doc]
            fmt == Get(doc, "format", "")
        IN /\ fmt \in DOMAIN FormatGenerators =>
                 files[k].generator \in FormatGenerators[fmt]
           /\ fmt = "pdf" => files[k].generator = PdfGenerator(doc)
           /\ ~MatchesNothing(doc)

-----------------------------------------------------------------------------
(* Claims on the scoring guide, checked under SpecGuide                    *)

GuidePrinted == pc \in {"markdown_guide", "panel_guide"}

LowerBound(range) == range[1]

UpperBound(range) == range[Len(range)]

WithinRange(m, range) == LowerBound(range) <= m /\ m <= UpperBound(range)

\* C16 as stated: for every rubric the printed scoring guide is well
\* formed: each printed MUST range has lower bound <= upper bound and no
\* negative bound, the ranges for the scores 1, 2 and 3 are disjoint and
\* together cover every MUST count from 1 to n_must - 1, and the SHOULD
\* threshold for score 5 does not exceed the number of SHOULD items.
C16_ScoringGuideWellFormed ==
    GuidePrinted =>
        LET g      == Val(ret)
            ranges == <<g.score1, g.score2, g.score3>>
        IN /\ \A k \in 1..3 :
                 /\ LowerBound(ranges[k]) <= UpperBound(ranges[k])
                 /\ LowerBound(ranges[k]) >= 0
           /\ \A m \in 1..(g.n_must - 1) :
                 Cardinality({k \in 1..3 : WithinRange(m, ranges[k])}) = 1
           /\ \A j, k \in 1..3 :
                 j # k => ~\E m \in 0..g.n_must :
                              WithinRange(m, ranges[j])
                              /\ WithinRange(m, ranges[k])
           /\ g.s_high <= g.n_should

=============================================================================
